---- MODULE Spec2Model ----
(***************************************************************************)
(* A model of the benchmark runner run.py: load_questions, count_tokens,   *)
(* invoke_model, is_p_pressed and the run_benchmark loop with its          *)
(* interactive extension, together with the CSV file it appends to.        *)
(*                                                                         *)
(* Texts are sequences of one-character strings.  Wall-clock durations are *)
(* whole numbers of seconds held as Python floats; the arithmetic on them   *)
(* is that of IEEE 754 doubles, rounded to the nearest, ties to even.      *)
(* The file system is assumed to accept every write to the results file.   *)
(***************************************************************************)
EXTENDS Integers, Sequences, FiniteSets, TLC

----------------------------------------------------------------------------
(* Bounds of the model *)

\* number of non-blank lines of questions.txt
NumQuestions == 2
\* number of characters of bible.txt
BibleLen == 5
\* number of times in one run that the surroundings leave the nominal course:
\* an endpoint answers otherwise than Nominal, or a key is waiting on stdin
MaxDeviations == 1

\* counted variant: largest iteration count configured for an endpoint
MaxIterations == 1

\* single calls: the longest of the short prompts, and the length of a long
\* prompt (500 tokens)
MaxPrompt == 9
LongPrompt == 2000

\* generate_graphs: the most data rows of the results file it is given
GraphRows == 3

(* Program constants *)

\* f.read(24000)
BIBLE_CHARS == 24000
\* str(...)[:100]
PREVIEW_CHARS == 100
\* len(text) // 4
CHARS_PER_TOKEN == 4
\* connect_timeout=30, read_timeout=30: the ceiling of a call, in seconds
TIMEOUT == 30

MODELS ==
    << "anthropic.claude-3-5-sonnet-20240620-v1:0",
       "eu.amazon.nova-lite-v1:0",
       "amazon.titan-embed-text-v2:0",
       "cohere.rerank-v3-5:0" >>

----------------------------------------------------------------------------
(* Texts and Python values *)

Chars(n, c) == [k \in 1..n |-> c]

Min(a, b) == IF a < b THEN a ELSE b

\* s[:n]
Prefix(s, n) == SubSeq(s, 1, Min(n, Len(s)))

\* a Python float: its whole part v and the bits of its fractional part,
\* the last of them 1 (<<>> for a whole number); a float is an IEEE 754 double
Float(v, frac) == [py |-> "float", v |-> v, frac |-> frac]
PyFloat(v) == Float(v, <<>>)
PyInt(v) == [py |-> "int", v |-> v]

Digit(d) ==
    CASE d = 0 -> "0" [] d = 1 -> "1" [] d = 2 -> "2" [] d = 3 -> "3"
      [] d = 4 -> "4" [] d = 5 -> "5" [] d = 6 -> "6" [] d = 7 -> "7"
      [] d = 8 -> "8" [] d = 9 -> "9"

DigitValue(c) ==
    CASE c = "0" -> 0 [] c = "1" -> 1 [] c = "2" -> 2 [] c = "3" -> 3
      [] c = "4" -> 4 [] c = "5" -> 5 [] c = "6" -> 6 [] c = "7" -> 7
      [] c = "8" -> 8 [] c = "9" -> 9 [] OTHER -> -1

RECURSIVE IntStr(_)
\* str(n) of an int
IntStr(n) ==
    IF n < 0 THEN <<"-">> \o IntStr(-n)
    ELSE IF n < 10 THEN << Digit(n) >>
    ELSE IntStr(n \div 10) \o << Digit(n % 10) >>

\* the significand of a double has 53 bits
DOUBLE_BITS == 53

RECURSIVE BitLen(_)
\* the number of bits of a natural number, 0 for 0
BitLen(n) == IF n = 0 THEN 0 ELSE 1 + BitLen(n \div 2)

RECURSIVE FracBits(_, _, _)
\* the first k bits after the binary point of r / b, for 0 <= r < b
FracBits(r, b, k) ==
    IF k = 0 THEN <<>>
    ELSE << IF 2 * r >= b THEN 1 ELSE 0 >> \o FracBits((2 * r) % b, b, k - 1)

RECURSIVE RemAfter(_, _, _)
\* what is left of r / b behind its first k bits, as a numerator over b
RemAfter(r, b, k) == IF k = 0 THEN r ELSE RemAfter((2 * r) % b, b, k - 1)

RECURSIVE LeadingZeros(_, _)
\* the number of zero bits at the head of the binary fraction r / b
LeadingZeros(r, b) ==
    IF r = 0 \/ 2 * r >= b THEN 0 ELSE 1 + LeadingZeros(2 * r, b)

\* the number of zero bits at the head of a bit sequence
ZerosAtHead(bits) ==
    LET ones == {k \in 1..Len(bits) : bits[k] = 1}
    IN  IF ones = {} THEN Len(bits)
        ELSE (CHOOSE k \in ones : \A l \in ones : k <= l) - 1

\* a bit sequence without the zero bits at its end
TrimZeros(bits) ==
    LET ones == {k \in 1..Len(bits) : bits[k] = 1}
    IN  IF ones = {} THEN <<>>
        ELSE SubSeq(bits, 1, CHOOSE k \in ones : \A l \in ones : l <= k)

\* a fraction plus one unit of its last bit: the new bits and the carry out
AddUlp(bits) ==
    LET zeros == {k \in 1..Len(bits) : bits[k] = 0}
    IN  IF zeros = {} THEN [carry |-> 1, bits |-> <<>>]
        ELSE LET p == CHOOSE k \in zeros : \A l \in zeros : l <= k
             IN  [carry |-> 0, bits |-> Append(SubSeq(bits, 1, p - 1), 1)]

\* n + 0.bits rounded to a double: DOUBLE_BITS significant bits, ties to even
RoundDouble(n, bits) ==
    LET keep == IF n > 0 THEN DOUBLE_BITS - BitLen(n)
                ELSE ZerosAtHead(bits) + DOUBLE_BITS
    IN  IF Len(bits) <= keep THEN Float(n, TrimZeros(bits))
        ELSE LET kept == SubSeq(bits, 1, keep)
                 half == bits[keep + 1] = 1
                 sticky == \E k \in (keep + 2)..Len(bits) : bits[k] = 1
                 odd == IF keep > 0 THEN kept[keep] = 1 ELSE n % 2 = 1
             IN  IF half /\ (sticky \/ odd)
                 THEN Float(n + AddUlp(kept).carry, TrimZeros(AddUlp(kept).bits))
                 ELSE Float(n, TrimZeros(kept))

\* a / b for an int a >= 0 and a whole-valued float b > 0: the double nearest
\* to the quotient (one bit more than kept, then a bit for all the rest)
FloatDiv(a, b) ==
    LET keep == IF a >= b THEN DOUBLE_BITS - BitLen(a \div b)
                ELSE LeadingZeros(a % b, b) + DOUBLE_BITS
    IN  RoundDouble(a \div b,
                    Append(FracBits(a % b, b, keep + 1),
                           IF RemAfter(a % b, b, keep + 1) # 0 THEN 1 ELSE 0))

RECURSIVE MulBits(_, _, _, _, _)
\* the bits k..1 of a fraction times the int c, from the last bit on
MulBits(bits, k, c, carry, acc) ==
    IF k = 0 THEN [carry |-> carry, bits |-> acc]
    ELSE MulBits(bits, k - 1, c, (bits[k] * c + carry) \div 2,
                 << (bits[k] * c + carry) % 2 >> \o acc)

\* x * c for a float x >= 0 and an int c > 0: the double nearest to the product
FloatMul(x, c) ==
    RoundDouble(x.v * c + MulBits(x.frac, Len(x.frac), c, 0, <<>>).carry,
                MulBits(x.frac, Len(x.frac), c, 0, <<>>).bits)

\* repr(x) of a whole-valued float
FloatRepr(v) == IntStr(v) \o <<".", "0">>

\* the text csv.writer writes for a number
NumStr(x) == IF x.py = "float" THEN FloatRepr(x.v) ELSE IntStr(x.v)

\* the text csv.writer writes for a bool
BoolStr(b) == IF b THEN <<"T", "r", "u", "e">> ELSE <<"F", "a", "l", "s", "e">>

RECURSIVE DigitsValue(_, _)
DigitsValue(s, acc) ==
    IF s = <<>> THEN acc
    ELSE DigitsValue(Tail(s), 10 * acc + DigitValue(Head(s)))

AllDigits(s) == s # <<>> /\ \A k \in 1..Len(s) : DigitValue(s[k]) >= 0

Whitespace == {" ", "\n", "\t", "\r"}

RECURSIVE LStrip(_)
LStrip(s) == IF s # <<>> /\ Head(s) \in Whitespace THEN LStrip(Tail(s)) ELSE s

RECURSIVE RStrip(_)
RStrip(s) ==
    IF s # <<>> /\ s[Len(s)] \in Whitespace THEN RStrip(SubSeq(s, 1, Len(s) - 1)) ELSE s

\* s.strip()
Strip(s) == LStrip(RStrip(s))

\* the digits of int(s), sign and surrounding blanks removed
ParseDigits(s) ==
    IF AllDigits(s) THEN [ok |-> TRUE, value |-> DigitsValue(s, 0)]
    ELSE IF s # <<>> /\ Head(s) \in {"-", "+"} /\ AllDigits(Tail(s))
    THEN [ok |-> TRUE,
          value |-> IF Head(s) = "-" THEN -DigitsValue(Tail(s), 0)
                    ELSE DigitsValue(Tail(s), 0)]
    ELSE [ok |-> FALSE, value |-> 0]

\* int(s): the value, or a ValueError (ok = FALSE)
ParseInt(s) == ParseDigits(Strip(s))

----------------------------------------------------------------------------
(* The input files *)

QuestionsTxt == "questions.txt"
BibleTxt == "bible.txt"

\* questions.txt: question k is k+2 letters long, a blank line follows each
QuestionLines ==
    [n \in 1..(2 * NumQuestions) |->
        IF n % 2 = 1 THEN Chars((n + 1) \div 2 + 2, "q") \o <<"\n">>
        ELSE <<" ", "\n">>]

BibleFile == Chars(BibleLen, "b")

RECURSIVE StripNonBlank(_)
\* [line.strip() for line in f if line.strip()]
StripNonBlank(lines) ==
    IF lines = <<>> THEN <<>>
    ELSE IF Strip(Head(lines)) # <<>>
    THEN << Strip(Head(lines)) >> \o StripNonBlank(Tail(lines))
    ELSE StripNonBlank(Tail(lines))

\* "\n\nFor reference, here is some additional context:\n\n"
Framing ==
    <<"\n", "\n">> \o
    <<"F", "o", "r", " ", "r", "e", "f", "e", "r", "e", "n", "c", "e", ",", " ",
      "h", "e", "r", "e", " ", "i", "s", " ", "s", "o", "m", "e", " ",
      "a", "d", "d", "i", "t", "i", "o", "n", "a", "l", " ",
      "c", "o", "n", "t", "e", "x", "t", ":">> \o
    <<"\n", "\n">>

\* load_questions(), both files present
load_questions ==
    LET qs == StripNonBlank(QuestionLines)
        bible_text == Prefix(BibleFile, BIBLE_CHARS)
    IN  [k \in 1..Len(qs) |-> qs[k] \o Framing \o bible_text]

\* count_tokens that counts a token for a last, incomplete group of characters
count_tokens_RoundUp(text) ==
    (Len(text) + CHARS_PER_TOKEN - 1) \div CHARS_PER_TOKEN

\* len(text) // 4
count_tokens(text) == Len(text) \div CHARS_PER_TOKEN

----------------------------------------------------------------------------
(* invoke_model *)

\* identifiers that are not in MODELS: one of no known family, and a Titan
\* text model, which is not an embedding model
OtherModels == {"meta.llama3-8b-instruct-v1:0", "amazon.titan-text-express-v1"}

ModelIds == {MODELS[k] : k \in 1..Len(MODELS)} \cup OtherModels

\* the characters of a model identifier
Spelling(model_id) ==
    CASE model_id = "anthropic.claude-3-5-sonnet-20240620-v1:0" ->
        <<"a", "n", "t", "h", "r", "o", "p", "i", "c", ".", "c", "l", "a",
          "u", "d", "e", "-", "3", "-", "5", "-", "s", "o", "n", "n", "e",
          "t", "-", "2", "0", "2", "4", "0", "6", "2", "0", "-", "v", "1",
          ":", "0">>
      [] model_id = "eu.amazon.nova-lite-v1:0" ->
        <<"e", "u", ".", "a", "m", "a", "z", "o", "n", ".", "n", "o", "v",
          "a", "-", "l", "i", "t", "e", "-", "v", "1", ":", "0">>
      [] model_id = "amazon.titan-embed-text-v2:0" ->
        <<"a", "m", "a", "z", "o", "n", ".", "t", "i", "t", "a", "n", "-",
          "e", "m", "b", "e", "d", "-", "t", "e", "x", "t", "-", "v", "2",
          ":", "0">>
      [] model_id = "cohere.rerank-v3-5:0" ->
        <<"c", "o", "h", "e", "r", "e", ".", "r", "e", "r", "a", "n", "k",
          "-", "v", "3", "-", "5", ":", "0">>
      [] model_id = "meta.llama3-8b-instruct-v1:0" ->
        <<"m", "e", "t", "a", ".", "l", "l", "a", "m", "a", "3", "-", "8",
          "b", "-", "i", "n", "s", "t", "r", "u", "c", "t", "-", "v", "1",
          ":", "0">>
      [] model_id = "amazon.titan-text-express-v1" ->
        <<"a", "m", "a", "z", "o", "n", ".", "t", "i", "t", "a", "n", "-",
          "t", "e", "x", "t", "-", "e", "x", "p", "r", "e", "s", "s", "-",
          "v", "1">>

\* sub in s
Contains(s, sub) ==
    \E k \in 0..(Len(s) - Len(sub)) : SubSeq(s, k + 1, k + Len(sub)) = sub

\* KindOfSpelling with the embedding branch taken by every "titan" identifier
KindOfSpelling_AnyTitan(s) ==
    IF Contains(s, <<"c", "l", "a", "u", "d", "e">>) THEN "claude"
    ELSE IF Contains(s, <<"n", "o", "v", "a">>) THEN "nova"
    ELSE IF Contains(s, <<"t", "i", "t", "a", "n">>) THEN "titan-embed"
    ELSE IF Contains(s, <<"r", "e", "r", "a", "n", "k">>) THEN "rerank"
    ELSE "none"

\* the branch of the if/elif chain of invoke_model that an identifier takes
KindOfSpelling(s) ==
    IF Contains(s, <<"c", "l", "a", "u", "d", "e">>) THEN "claude"
    ELSE IF Contains(s, <<"n", "o", "v", "a">>) THEN "nova"
    ELSE IF Contains(s, <<"t", "i", "t", "a", "n", "-", "e", "m", "b", "e", "d">>)
    THEN "titan-embed"
    ELSE IF Contains(s, <<"r", "e", "r", "a", "n", "k">>) THEN "rerank"
    ELSE "none"

\* the branch of each identifier
Kinds == [id \in ModelIds |-> KindOfSpelling(Spelling(id))]

\* the branch of invoke_model a model identifier selects
Kind(model_id) == Kinds[model_id]

Ellipsis == <<".", ".", ".">>

\* what the endpoint does with one request: the stage that raises (if any),
\* the seconds the call takes, and the text the response carries
Durations == {0, 1, 2}
Bodies == {<<>>, Chars(9, "a")}
Raises == {"none", "send", "parse"}
Answers == [raises : Raises, duration : Durations, body : Bodies]
Nominal == [raises |-> "none", duration |-> 1, body |-> Chars(9, "a")]

\* ResponseText with the text assigned before the statement that raises
ResponseText_BeforeRaise(model_id, answer) ==
    CASE Kind(model_id) \in {"claude", "nova"} -> answer.body
      [] Kind(model_id) \in {"titan-embed", "rerank"} ->
            Prefix(answer.body, PREVIEW_CHARS) \o Ellipsis
      [] OTHER -> <<>>

\* response_text at the end of the try block of invoke_model
ResponseText(model_id, answer) ==
    IF Kind(model_id) # "none" /\ answer.raises # "none" THEN <<>>
    ELSE CASE Kind(model_id) \in {"claude", "nova"} -> answer.body
           [] Kind(model_id) \in {"titan-embed", "rerank"} ->
                Prefix(answer.body, PREVIEW_CHARS) \o Ellipsis
           [] OTHER -> <<>>

\* None
NoError == <<>>

\* error at the end of invoke_model: None, or the one message str(e)
ErrorOf(model_id, answer) ==
    IF Kind(model_id) # "none" /\ answer.raises # "none"
    THEN << <<"e", "r", "r">> >> ELSE NoError

\* invoke_model that reports no more than the ceiling as the duration
invoke_model_Clamped(model_id, prompt, answer) ==
    LET response_text == ResponseText(model_id, answer)
    IN  [duration |-> PyFloat(Min(answer.duration, TIMEOUT)),
         error |-> ErrorOf(model_id, answer),
         response |-> response_text,
         input_tokens |-> count_tokens(prompt),
         output_tokens |->
            IF response_text # <<>> THEN count_tokens(response_text) ELSE 0]

invoke_model(model_id, prompt, answer) ==
    LET response_text == ResponseText(model_id, answer)
    IN  [duration |-> PyFloat(answer.duration),
         error |-> ErrorOf(model_id, answer),
         response |-> response_text,
         input_tokens |-> count_tokens(prompt),
         output_tokens |->
            IF response_text # <<>> THEN count_tokens(response_text) ELSE 0]

----------------------------------------------------------------------------
(* The state of one run of the program *)

VARIABLES
    fs,              \* the input files that exist
    tty,             \* whether sys.stdin is a terminal
    proc,            \* the process: running, done, failed, interrupted, killed
    pc,              \* the position of the program in run_benchmark
    questions,       \* run_benchmark: questions
    results,         \* run_benchmark: results
    model_results,   \* run_benchmark: model_results
    m,               \* position of model_id in MODELS (0 before the loop)
    i,               \* index of the enumerate loop over questions (-1 before it)
    j,               \* index of the loop over range(more_iterations)
    more_iterations, \* the count read at the extension prompt
    result,          \* the result of the last invoke_model, <<>> before it
    csv_file,        \* the rows of the results file on disk
    buffer,          \* rows written to the open file object, not yet on disk
    inflight,        \* the calls sent to an endpoint and not yet returned
    calls,           \* history: every call of invoke_model, in order
    events,          \* history: what the program did since the last call began
    exception,       \* the exception that ended the run, "" if none did
    appended,        \* history: rows that reached the results file
    presses,         \* history: keys found on stdin
    deviations,      \* times so far the surroundings left the nominal course
    iterations,      \* counted variant: the iteration count of each endpoint
    iteration,       \* counted variant: the iteration of the current question
    typed,           \* the line input() returned since the last call began
    df,              \* generate_graphs: the data frame read from the file
    metrics          \* generate_graphs: the summary table, by model_id

vars == << fs, tty, proc, pc, questions, results, model_results, m, i, j,
           more_iterations, result, csv_file, buffer, inflight, calls,
           events, exception, appended, presses, deviations, iterations,
           iteration, typed, df, metrics >>

\* model_id of a loop over reversed(MODELS)
model_id_Reversed == MODELS[Len(MODELS) + 1 - m]

\* for model_id in MODELS
model_id == MODELS[m]
question == questions[i + 1]

\* Header of a file that also names the iteration of each row
Header_WithIteration ==
    << <<"model_id">>, <<"question_id">>, <<"iteration">>, <<"duration">>,
       <<"input_tokens">>, <<"output_tokens">>, <<"total_tokens">>,
       <<"tokens_per_minute">>, <<"success">> >>

Header ==
    << <<"model_id">>, <<"question_id">>, <<"duration">>, <<"input_tokens">>,
       <<"output_tokens">>, <<"total_tokens">>, <<"tokens_per_minute">>,
       <<"success">> >>

\* success = result["error"] is None
Success(r) == r.error = NoError

TotalTokens(r) == r.input_tokens + r.output_tokens

\* TokensPerMinute written total_tokens * 60 / duration
TokensPerMinute_MultiplyFirst(r) ==
    IF r.duration.v > 0
    THEN FloatDiv(TotalTokens(r) * 60, r.duration.v)
    ELSE PyInt(0)

\* (total_tokens / duration) * 60 if duration > 0 else 0
TokensPerMinute(r) ==
    IF r.duration.v > 0
    THEN FloatMul(FloatDiv(TotalTokens(r), r.duration.v), 60)
    ELSE PyInt(0)

\* the dict appended to model_results
ResultRow(mid, qid, r) ==
    [model_id |-> mid,
     question_id |-> qid,
     duration |-> r.duration,
     input_tokens |-> r.input_tokens,
     output_tokens |-> r.output_tokens,
     total_tokens |-> TotalTokens(r),
     tokens_per_minute |-> TokensPerMinute(r),
     success |-> Success(r)]

\* CsvRow with the success column written from the response, not the error
CsvRow_SuccessFromResponse(mid, qid, r) ==
    << <<mid>>, IntStr(qid), NumStr(r.duration), IntStr(r.input_tokens),
       IntStr(r.output_tokens), IntStr(TotalTokens(r)),
       NumStr(TokensPerMinute(r)), BoolStr(r.response # <<>>) >>

\* the list handed to writer.writerow, as the text of its cells
CsvRow(mid, qid, r) ==
    << <<mid>>, IntStr(qid), NumStr(r.duration), IntStr(r.input_tokens),
       IntStr(r.output_tokens), IntStr(TotalTokens(r)),
       NumStr(TokensPerMinute(r)), BoolStr(Success(r)) >>

\* the state at the entry of run_benchmark, the surroundings apart
Entry ==
    /\ proc = "running"
    /\ pc = "start"
    /\ questions = <<>>
    /\ results = <<>>
    /\ model_results = <<>>
    /\ m = 0
    /\ i = -1
    /\ j = -1
    /\ more_iterations = 0
    /\ result = <<>>
    /\ csv_file = <<>>
    /\ buffer = <<>>
    /\ inflight = {}
    /\ calls = <<>>
    /\ events = <<>>
    /\ exception = ""
    /\ appended = 0
    /\ presses = 0
    /\ deviations = 0
    /\ iteration = 0
    /\ typed = <<>>
    /\ df = <<>>
    /\ metrics = <<>>

\* run.py has no iteration counts: one regular call per model and question
Init ==
    /\ fs \in SUBSET {QuestionsTxt, BibleTxt}
    /\ tty \in BOOLEAN
    /\ iterations = [k \in 1..Len(MODELS) |-> 1]
    /\ Entry

----------------------------------------------------------------------------
(* run_benchmark, step by step *)

\* LoadQuestions of a loader that goes on without the reference text
LoadQuestions_BibleOptional ==
    /\ proc = "running"
    /\ pc = "start"
    /\ IF QuestionsTxt \in fs
       THEN /\ questions' = load_questions
            /\ pc' = "header"
            /\ UNCHANGED << proc, exception >>
       ELSE /\ exception' = "FileNotFoundError"
            /\ proc' = "failed"
            /\ UNCHANGED << questions, pc >>
    /\ UNCHANGED << typed, df, metrics, fs, tty, iterations, iteration, appended, results,
                    model_results, m, i, j, more_iterations, result, csv_file,
                    buffer, inflight, calls, events, presses, deviations >>

\* questions = load_questions(); results = []
LoadQuestions ==
    /\ proc = "running"
    /\ pc = "start"
    /\ IF {QuestionsTxt, BibleTxt} \subseteq fs
       THEN /\ questions' = load_questions
            /\ pc' = "header"
            /\ UNCHANGED << proc, exception >>
       ELSE /\ exception' = "FileNotFoundError"
            /\ proc' = "failed"
            /\ UNCHANGED << questions, pc >>
    /\ UNCHANGED << typed, df, metrics, fs, tty, iterations, iteration, appended, results,
                    model_results, m, i, j, more_iterations, result, csv_file,
                    buffer, inflight, calls, events, presses, deviations >>

\* with open(csv_file, 'w') ... writer.writerow([...header...])
WriteHeader ==
    /\ proc = "running"
    /\ pc = "header"
    /\ csv_file' = << Header >>
    /\ pc' = "models"
    /\ UNCHANGED << typed, df, metrics, fs, tty, iterations, iteration, proc, appended, questions,
                    results, model_results, m, i, j, more_iterations, result,
                    buffer, inflight, calls, events, exception, presses,
                    deviations >>

\* for model_id in MODELS: model_results = [] ... ; return csv_file, results
NextModel ==
    /\ proc = "running"
    /\ pc = "models"
    /\ IF m < Len(MODELS)
       THEN /\ m' = m + 1
            /\ model_results' = <<>>
            /\ i' = -1
            /\ pc' = "questions"
            /\ UNCHANGED proc
       ELSE /\ proc' = "done"
            /\ UNCHANGED << m, model_results, i, pc >>
    /\ UNCHANGED << typed, df, metrics, fs, tty, iterations, iteration, appended, questions,
                    results, j, more_iterations, result, csv_file, buffer,
                    inflight, calls, events, exception, presses, deviations >>

\* NextQuestion of a loop that stops one question early
NextQuestion_StopsEarly ==
    /\ proc = "running"
    /\ pc = "questions"
    /\ IF i + 1 < Len(questions) - 1
       THEN /\ i' = i + 1
            /\ pc' = "invoke"
            /\ UNCHANGED results
       ELSE /\ results' = results \o model_results
            /\ pc' = "models"
            /\ UNCHANGED i
    /\ UNCHANGED << typed, df, metrics, fs, tty, iterations, iteration, proc, appended, questions,
                    model_results, m, j, more_iterations, result, csv_file,
                    buffer, inflight, calls, events, exception, presses,
                    deviations >>

\* for i, question in enumerate(questions): ... ; results.extend(model_results)
NextQuestion ==
    /\ proc = "running"
    /\ pc = "questions"
    /\ IF i + 1 < Len(questions)
       THEN /\ i' = i + 1
            /\ pc' = "invoke"
            /\ UNCHANGED results
       ELSE /\ results' = results \o model_results
            /\ pc' = "models"
            /\ UNCHANGED i
    /\ UNCHANGED << typed, df, metrics, fs, tty, iterations, iteration, proc, appended, questions,
                    model_results, m, j, more_iterations, result, csv_file,
                    buffer, inflight, calls, events, exception, presses,
                    deviations >>

\* result = invoke_model(model_id, question): the request is on its way
Invoke ==
    /\ proc = "running"
    /\ pc = "invoke"
    /\ calls' = Append(calls, [model_id |-> model_id, question_id |-> i + 1,
                               extension |-> FALSE, outcome |-> "inflight"])
    /\ inflight' = inflight \cup {Len(calls) + 1}
    /\ events' = <<"invoke">>
    /\ typed' = <<>>
    /\ pc' = "inflight"
    /\ UNCHANGED << df, metrics, fs, tty, iterations, iteration, proc, appended, questions,
                    results, model_results, m, i, j, more_iterations, result,
                    csv_file, buffer, exception, presses, deviations >>

\* Return of a call left running in the background: the loop does not wait
Return_Background ==
    /\ proc = "running"
    /\ pc = "inflight"
    /\ \E answer \in Answers :
          /\ answer # Nominal => deviations < MaxDeviations
          /\ deviations' = IF answer # Nominal THEN deviations + 1 ELSE deviations
          /\ result' = invoke_model(model_id, question, answer)
          /\ calls' = [calls EXCEPT ![Len(calls)].outcome =
                          IF answer.raises = "none" THEN "returned" ELSE "raised"]
    /\ pc' = "row"
    /\ UNCHANGED << typed, df, metrics, fs, tty, iterations, iteration, proc, appended, questions,
                    results, model_results, m, i, j, more_iterations,
                    csv_file, buffer, inflight, events, exception, presses >>

\* the rest of invoke_model: the endpoint answers or an exception is caught
Return ==
    /\ proc = "running"
    /\ pc = "inflight"
    /\ \E answer \in Answers :
          /\ answer # Nominal => deviations < MaxDeviations
          /\ deviations' = IF answer # Nominal THEN deviations + 1 ELSE deviations
          /\ result' = invoke_model(model_id, question, answer)
          /\ calls' = [calls EXCEPT ![Len(calls)].outcome =
                          IF answer.raises = "none" THEN "returned" ELSE "raised"]
    /\ inflight' = inflight \ {Len(calls)}
    /\ pc' = "row"
    /\ UNCHANGED << typed, df, metrics, fs, tty, iterations, iteration, proc, appended, questions,
                    results, model_results, m, i, j, more_iterations,
                    csv_file, buffer, events, exception, presses >>

\* model_results.append(result_row); with open(csv_file, 'a'): writer.writerow
AppendRow ==
    /\ proc = "running"
    /\ pc = "row"
    /\ model_results' = Append(model_results, ResultRow(model_id, i + 1, result))
    /\ buffer' = Append(buffer, CsvRow(model_id, i + 1, result))
    /\ events' = Append(events, "row")
    /\ pc' = "close"
    /\ UNCHANGED << typed, df, metrics, fs, tty, iterations, iteration, proc, appended, questions,
                    results, m, i, j, more_iterations, result, csv_file,
                    inflight, calls, exception, presses, deviations >>

\* CloseCsv on a file opened with 'w': the buffer replaces what the file held
CloseCsv_Truncating ==
    /\ proc = "running"
    /\ pc = "close"
    /\ csv_file' = buffer
    /\ buffer' = <<>>
    /\ appended' = appended + Len(buffer)
    /\ pc' = "sleep"
    /\ UNCHANGED << typed, df, metrics, fs, tty, iterations, iteration, proc, questions, results,
                    model_results, m, i, j, more_iterations, result, inflight,
                    calls, events, exception, presses, deviations >>

\* the end of the with block: the file is closed, its buffer reaches the disk
CloseCsv ==
    /\ proc = "running"
    /\ pc = "close"
    /\ csv_file' = csv_file \o buffer
    /\ buffer' = <<>>
    /\ appended' = appended + Len(buffer)
    /\ pc' = "sleep"
    /\ UNCHANGED << typed, df, metrics, fs, tty, iterations, iteration, proc, questions, results,
                    model_results, m, i, j, more_iterations, result, inflight,
                    calls, events, exception, presses, deviations >>

\* Cooldown of a loop that goes on to the poll without sleeping
Cooldown_Skipped ==
    /\ proc = "running"
    /\ pc = "sleep"
    /\ pc' = "poll"
    /\ UNCHANGED << typed, df, metrics, fs, tty, iterations, iteration, proc, appended, questions,
                    results, model_results, m, i, j, more_iterations, result,
                    csv_file, buffer, inflight, calls, events, exception, presses,
                    deviations >>

\* time.sleep(1)
Cooldown ==
    /\ proc = "running"
    /\ pc = "sleep"
    /\ events' = Append(events, "sleep")
    /\ pc' = "poll"
    /\ UNCHANGED << typed, df, metrics, fs, tty, iterations, iteration, proc, appended, questions,
                    results, model_results, m, i, j, more_iterations, result,
                    csv_file, buffer, inflight, calls, exception, presses,
                    deviations >>

\* what is waiting on stdin when is_p_pressed looks: nothing, 'p', another key
Keys == {"", "p", "x"}

\* is_p_pressed() on a terminal: select finds a key or not; key == 'p'
is_p_pressed(key) == key # "" /\ key = "p"

\* if is_p_pressed(): ...  (termios.tcgetattr raises when stdin is no terminal)
Poll ==
    /\ proc = "running"
    /\ pc = "poll"
    /\ events' = Append(events, "poll")
    /\ IF ~tty
       THEN /\ exception' = "termios.error"
            /\ proc' = "failed"
            /\ UNCHANGED << pc, presses, deviations >>
       ELSE /\ \E key \in Keys :
                /\ key # "" => deviations < MaxDeviations
                /\ deviations' = IF key # "" THEN deviations + 1 ELSE deviations
                /\ presses' = IF key # "" THEN presses + 1 ELSE presses
                /\ pc' = IF is_p_pressed(key) THEN "prompt" ELSE "questions"
            /\ UNCHANGED << proc, exception >>
    /\ UNCHANGED << typed, df, metrics, fs, tty, iterations, iteration, appended, questions,
                    results, model_results, m, i, j, more_iterations, result,
                    csv_file, buffer, inflight, calls >>

\* the lines a user may type at the prompt
Entries ==
    {<<>>, <<"x">>, <<"-", "1">>, <<"0">>, <<" ", "2">>}

\* input("Enter number (default: 1): ") or "1"
OrDefault(entry) == IF entry = <<>> THEN <<"1">> ELSE entry

\* Prompt that puts the default count in the place of an entry int() rejects
Prompt_DefaultOnInvalid ==
    /\ proc = "running"
    /\ pc = "prompt"
    /\ \E entry \in Entries :
          LET parsed == ParseInt(OrDefault(entry))
          IN  /\ typed' = <<entry>>
              /\ more_iterations' = IF parsed.ok THEN parsed.value ELSE 1
              /\ j' = -1
              /\ pc' = "more"
    /\ UNCHANGED << df, metrics, fs, tty, iterations, iteration, proc, appended, questions,
                    results, model_results, m, i, result, csv_file, buffer,
                    inflight, calls, events, exception, presses, deviations >>

\* more_iterations = int(input(...) or "1"), ValueError caught after the loop
Prompt ==
    /\ proc = "running"
    /\ pc = "prompt"
    /\ \E entry \in Entries :
          LET parsed == ParseInt(OrDefault(entry))
          IN  /\ typed' = <<entry>>
              /\ IF parsed.ok
                 THEN /\ more_iterations' = parsed.value
                      /\ j' = -1
                      /\ pc' = "more"
                 ELSE /\ pc' = "questions"
                      /\ UNCHANGED << more_iterations, j >>
    /\ UNCHANGED << df, metrics, fs, tty, iterations, iteration, proc, appended, questions,
                    results, model_results, m, i, result, csv_file, buffer,
                    inflight, calls, events, exception, presses, deviations >>

\* input() at end of input: EOFError is not a ValueError and is not caught
PromptEOF ==
    /\ proc = "running"
    /\ pc = "prompt"
    /\ exception' = "EOFError"
    /\ proc' = "failed"
    /\ UNCHANGED << typed, df, metrics, fs, tty, iterations, iteration, pc, appended, questions,
                    results, model_results, m, i, j, more_iterations, result,
                    csv_file, buffer, inflight, calls, events, presses,
                    deviations >>

\* NextExtra of a loop over range(more_iterations + 1)
NextExtra_OneMore ==
    /\ proc = "running"
    /\ pc = "more"
    /\ IF j + 1 < more_iterations + 1
       THEN /\ j' = j + 1
            /\ pc' = "x_invoke"
       ELSE /\ pc' = "questions"
            /\ UNCHANGED j
    /\ UNCHANGED << typed, df, metrics, fs, tty, iterations, iteration, proc, appended, questions,
                    results, model_results, m, i, more_iterations, result,
                    csv_file, buffer, inflight, calls, events, exception,
                    presses, deviations >>

\* for j in range(more_iterations): ...
NextExtra ==
    /\ proc = "running"
    /\ pc = "more"
    /\ IF j + 1 < more_iterations
       THEN /\ j' = j + 1
            /\ pc' = "x_invoke"
       ELSE /\ pc' = "questions"
            /\ UNCHANGED j
    /\ UNCHANGED << typed, df, metrics, fs, tty, iterations, iteration, proc, appended, questions,
                    results, model_results, m, i, more_iterations, result,
                    csv_file, buffer, inflight, calls, events, exception,
                    presses, deviations >>

\* the extension loop: result = invoke_model(model_id, question)
ExtraInvoke ==
    /\ proc = "running"
    /\ pc = "x_invoke"
    /\ calls' = Append(calls, [model_id |-> model_id, question_id |-> i + 1,
                               extension |-> TRUE, outcome |-> "inflight"])
    /\ inflight' = inflight \cup {Len(calls) + 1}
    /\ events' = <<"invoke">>
    /\ typed' = <<>>
    /\ pc' = "x_inflight"
    /\ UNCHANGED << df, metrics, fs, tty, iterations, iteration, proc, appended, questions,
                    results, model_results, m, i, j, more_iterations, result,
                    csv_file, buffer, exception, presses, deviations >>

\* the extension loop: the endpoint answers or an exception is caught
ExtraReturn ==
    /\ proc = "running"
    /\ pc = "x_inflight"
    /\ \E answer \in Answers :
          /\ answer # Nominal => deviations < MaxDeviations
          /\ deviations' = IF answer # Nominal THEN deviations + 1 ELSE deviations
          /\ result' = invoke_model(model_id, question, answer)
          /\ calls' = [calls EXCEPT ![Len(calls)].outcome =
                          IF answer.raises = "none" THEN "returned" ELSE "raised"]
    /\ inflight' = inflight \ {Len(calls)}
    /\ pc' = "x_row"
    /\ UNCHANGED << typed, df, metrics, fs, tty, iterations, iteration, proc, appended, questions,
                    results, model_results, m, i, j, more_iterations,
                    csv_file, buffer, events, exception, presses >>

\* ExtraAppendRow with the result kept in memory only, the file left alone
ExtraAppendRow_MemoryOnly ==
    /\ proc = "running"
    /\ pc = "x_row"
    /\ model_results' = Append(model_results, ResultRow(model_id, i + 1, result))
    /\ events' = Append(events, "row")
    /\ pc' = "x_close"
    /\ UNCHANGED << typed, df, metrics, fs, tty, iterations, iteration, proc, appended, questions,
                    results, m, i, j, more_iterations, result, csv_file,
                    buffer, inflight, calls, exception, presses, deviations >>

\* the extension loop: model_results.append; writer.writerow
ExtraAppendRow ==
    /\ proc = "running"
    /\ pc = "x_row"
    /\ model_results' = Append(model_results, ResultRow(model_id, i + 1, result))
    /\ buffer' = Append(buffer, CsvRow(model_id, i + 1, result))
    /\ events' = Append(events, "row")
    /\ pc' = "x_close"
    /\ UNCHANGED << typed, df, metrics, fs, tty, iterations, iteration, proc, appended, questions,
                    results, m, i, j, more_iterations, result, csv_file,
                    inflight, calls, exception, presses, deviations >>

\* the extension loop: the end of the with block
ExtraCloseCsv ==
    /\ proc = "running"
    /\ pc = "x_close"
    /\ csv_file' = csv_file \o buffer
    /\ buffer' = <<>>
    /\ appended' = appended + Len(buffer)
    /\ pc' = "x_sleep"
    /\ UNCHANGED << typed, df, metrics, fs, tty, iterations, iteration, proc, questions, results,
                    model_results, m, i, j, more_iterations, result, inflight,
                    calls, events, exception, presses, deviations >>

\* the extension loop: time.sleep(1)
ExtraCooldown ==
    /\ proc = "running"
    /\ pc = "x_sleep"
    /\ events' = Append(events, "sleep")
    /\ pc' = "more"
    /\ UNCHANGED << typed, df, metrics, fs, tty, iterations, iteration, proc, appended, questions,
                    results, model_results, m, i, j, more_iterations, result,
                    csv_file, buffer, inflight, calls, exception, presses,
                    deviations >>

\* KeyboardInterrupt: it unwinds run_benchmark (a with block closes its file)
\* and is caught in __main__
Interrupt ==
    /\ proc = "running"
    /\ deviations < MaxDeviations
    /\ deviations' = deviations + 1
    /\ csv_file' = csv_file \o buffer
    /\ buffer' = <<>>
    /\ appended' = appended + Len(buffer)
    /\ inflight' = {}
    /\ proc' = "interrupted"
    /\ UNCHANGED << typed, df, metrics, fs, tty, iterations, iteration, pc, questions, results,
                    model_results, m, i, j, more_iterations, result, calls,
                    events, exception, presses >>

\* the process is killed: what was not yet handed to the system is lost
Kill ==
    /\ proc = "running"
    /\ deviations < MaxDeviations
    /\ deviations' = deviations + 1
    /\ buffer' = <<>>
    /\ inflight' = {}
    /\ proc' = "killed"
    /\ UNCHANGED << typed, df, metrics, fs, tty, iterations, iteration, pc, appended, questions,
                    results, model_results, m, i, j, more_iterations, result,
                    csv_file, calls, events, exception, presses >>

Next ==
    \/ LoadQuestions
    \/ WriteHeader
    \/ NextModel
    \/ NextQuestion
    \/ Invoke
    \/ Return
    \/ AppendRow
    \/ CloseCsv
    \/ Cooldown
    \/ Poll
    \/ Prompt
    \/ PromptEOF
    \/ NextExtra
    \/ ExtraInvoke
    \/ ExtraReturn
    \/ ExtraAppendRow
    \/ ExtraCloseCsv
    \/ ExtraCooldown
    \/ Interrupt
    \/ Kill

Spec == Init /\ [][Next]_vars

----------------------------------------------------------------------------
(* The counted variant of the run loop.  The run loop that gathers an
   iteration count per endpoint before the run is not part of run.py; it is
   modelled from its description: for each endpoint with a count above 0,
   for each prompt in corpus order, for each iteration 1..N: invoke, emit
   one record, sleep.  It shares load_questions, invoke_model, the header
   and the row format with run.py and has no keypress poll. *)

InitCounted ==
    /\ fs = {QuestionsTxt, BibleTxt}
    /\ tty = TRUE
    /\ iterations \in [1..Len(MODELS) -> 0..MaxIterations]
    /\ Entry

\* Count in a controller that reads the count as "int(text) or 1"
Count_OrDefault(k) == IF iterations[k] = 0 THEN 1 ELSE iterations[k]

\* the iteration count configured for the endpoint at position k of MODELS
Count(k) == iterations[k]

\* the next endpoint; an endpoint with count 0 is skipped entirely
CountedNextModel ==
    /\ proc = "running"
    /\ pc = "models"
    /\ IF m < Len(MODELS)
       THEN /\ m' = m + 1
            /\ model_results' = <<>>
            /\ i' = -1
            /\ pc' = IF Count(m + 1) > 0 THEN "n_questions" ELSE "models"
            /\ UNCHANGED proc
       ELSE /\ proc' = "done"
            /\ UNCHANGED << m, model_results, i, pc >>
    /\ UNCHANGED << typed, df, metrics, fs, tty, iterations, iteration, appended, questions,
                    results, j, more_iterations, result, csv_file, buffer,
                    inflight, calls, events, exception, presses, deviations >>

\* the next prompt, in corpus order
CountedNextQuestion ==
    /\ proc = "running"
    /\ pc = "n_questions"
    /\ IF i + 1 < Len(questions)
       THEN /\ i' = i + 1
            /\ iteration' = 0
            /\ pc' = "n_iterations"
            /\ UNCHANGED results
       ELSE /\ results' = results \o model_results
            /\ pc' = "models"
            /\ UNCHANGED << i, iteration >>
    /\ UNCHANGED << typed, df, metrics, fs, tty, iterations, proc, appended, questions,
                    model_results, m, j, more_iterations, result, csv_file,
                    buffer, inflight, calls, events, exception, presses,
                    deviations >>

\* the next iteration 1..N of the current endpoint and prompt
CountedNextIteration ==
    /\ proc = "running"
    /\ pc = "n_iterations"
    /\ IF iteration < Count(m)
       THEN /\ iteration' = iteration + 1
            /\ pc' = "n_invoke"
       ELSE /\ pc' = "n_questions"
            /\ UNCHANGED iteration
    /\ UNCHANGED << typed, df, metrics, fs, tty, iterations, proc, appended, questions, results,
                    model_results, m, i, j, more_iterations, result, csv_file,
                    buffer, inflight, calls, events, exception, presses,
                    deviations >>

\* invoke: the request is on its way
CountedInvoke ==
    /\ proc = "running"
    /\ pc = "n_invoke"
    /\ calls' = Append(calls, [model_id |-> model_id, question_id |-> i + 1,
                               extension |-> FALSE, outcome |-> "inflight"])
    /\ inflight' = inflight \cup {Len(calls) + 1}
    /\ events' = <<"invoke">>
    /\ pc' = "n_inflight"
    /\ UNCHANGED << typed, df, metrics, fs, tty, iterations, iteration, proc, appended, questions,
                    results, model_results, m, i, j, more_iterations, result,
                    csv_file, buffer, exception, presses, deviations >>

\* invoke: the endpoint answers or the failure is caught (at most one answer
\* of a run is not the nominal one)
CountedReturn ==
    /\ proc = "running"
    /\ pc = "n_inflight"
    /\ \E answer \in Answers :
          /\ answer # Nominal => deviations = 0
          /\ deviations' = IF answer # Nominal THEN deviations + 1 ELSE deviations
          /\ result' = invoke_model(model_id, question, answer)
          /\ calls' = [calls EXCEPT ![Len(calls)].outcome =
                          IF answer.raises = "none" THEN "returned" ELSE "raised"]
    /\ inflight' = inflight \ {Len(calls)}
    /\ pc' = "n_row"
    /\ UNCHANGED << typed, df, metrics, fs, tty, iterations, iteration, proc, appended, questions,
                    results, model_results, m, i, j, more_iterations, csv_file,
                    buffer, events, exception, presses >>

\* emit one record: append it in memory and to the file
CountedAppendRow ==
    /\ proc = "running"
    /\ pc = "n_row"
    /\ model_results' = Append(model_results, ResultRow(model_id, i + 1, result))
    /\ csv_file' = Append(csv_file, CsvRow(model_id, i + 1, result))
    /\ appended' = appended + 1
    /\ events' = Append(events, "row")
    /\ pc' = "n_sleep"
    /\ UNCHANGED << typed, df, metrics, fs, tty, iterations, iteration, proc, questions, results,
                    m, i, j, more_iterations, result, buffer, inflight, calls,
                    exception, presses, deviations >>

\* the cooldown before the next call
CountedCooldown ==
    /\ proc = "running"
    /\ pc = "n_sleep"
    /\ events' = Append(events, "sleep")
    /\ pc' = "n_iterations"
    /\ UNCHANGED << typed, df, metrics, fs, tty, iterations, iteration, proc, appended, questions,
                    results, model_results, m, i, j, more_iterations, result,
                    csv_file, buffer, inflight, calls, exception, presses,
                    deviations >>

NextCounted ==
    \/ LoadQuestions
    \/ WriteHeader
    \/ CountedNextModel
    \/ CountedNextQuestion
    \/ CountedNextIteration
    \/ CountedInvoke
    \/ CountedReturn
    \/ CountedAppendRow
    \/ CountedCooldown

SpecCounted == InitCounted /\ [][NextCounted]_vars

----------------------------------------------------------------------------
(* One call of invoke_model and the record run_benchmark makes of it, for any
   model identifier, prompt and answer of the endpoint: lines 194-219 of
   run_benchmark with invoke_model, from the call to model_results.append.
   The measured duration may be negative: time.time() is not monotonic. *)

CallPrompts == {Chars(n, "x") : n \in (0..MaxPrompt) \cup {LongPrompt}}
CallDurations == {-1, 0, 1, 2, 3, 29, 30, 31}
CallAnswers == [raises : Raises, duration : CallDurations, body : Bodies]

\* invoke_model has been called with some model identifier and prompt
InitCall ==
    /\ fs = {QuestionsTxt, BibleTxt}
    /\ tty = TRUE
    /\ iterations = [k \in 1..Len(MODELS) |-> 1]
    /\ proc = "running"
    /\ pc = "c_inflight"
    /\ \E prompt \in CallPrompts : questions = << prompt >>
    /\ \E id \in ModelIds :
          calls = << [model_id |-> id, question_id |-> 1,
                      extension |-> FALSE, outcome |-> "inflight"] >>
    /\ inflight = {1}
    /\ events = <<"invoke">>
    /\ results = <<>>
    /\ model_results = <<>>
    /\ m = 0
    /\ i = 0
    /\ j = -1
    /\ more_iterations = 0
    /\ result = <<>>
    /\ csv_file = << Header >>
    /\ buffer = <<>>
    /\ exception = ""
    /\ appended = 0
    /\ presses = 0
    /\ deviations = 0
    /\ iteration = 0
    /\ typed = <<>>
    /\ df = <<>>
    /\ metrics = <<>>

\* invoke_model runs to its return: a request is sent when the identifier
\* selects a branch, and the endpoint answers or an exception is caught
CallReturn ==
    /\ proc = "running"
    /\ pc = "c_inflight"
    /\ \E answer \in CallAnswers :
          /\ result' = invoke_model(calls[1].model_id, questions[1], answer)
          /\ calls' = [calls EXCEPT ![1].outcome =
                          IF Kind(calls[1].model_id) # "none"
                             /\ answer.raises # "none"
                          THEN "raised" ELSE "returned"]
    /\ events' = IF Kind(calls[1].model_id) # "none"
                 THEN Append(events, "request") ELSE events
    /\ inflight' = {}
    /\ pc' = "c_row"
    /\ UNCHANGED << typed, df, metrics, fs, tty, iterations, iteration, proc, appended, questions,
                    results, model_results, m, i, j, more_iterations,
                    csv_file, buffer, exception, presses, deviations >>

\* success, total_tokens, tokens_per_minute; model_results.append(result_row)
CallRecord ==
    /\ proc = "running"
    /\ pc = "c_row"
    /\ model_results' =
          Append(model_results, ResultRow(calls[1].model_id, i + 1, result))
    /\ events' = Append(events, "row")
    /\ proc' = "done"
    /\ UNCHANGED << typed, df, metrics, fs, tty, iterations, iteration, pc, appended, questions,
                    results, m, i, j, more_iterations, result, csv_file,
                    buffer, inflight, calls, exception, presses, deviations >>

NextCall ==
    \/ CallReturn
    \/ CallRecord

SpecCall == InitCall /\ [][NextCall]_vars

----------------------------------------------------------------------------
(* The call of the variant with a configured ceiling.  run.py sets the
   ceiling as the connect and read timeout of its client and raises no
   warning of its own; the warning is modelled from its description: a call
   whose measured duration meets or exceeds the ceiling is flagged as a
   timeout warning, its duration is recorded as measured. *)

\* the warning of a call that took the seconds measured
TimeoutWarning(measured) == measured >= TIMEOUT

\* invoke_model runs to its return and the warning is raised if it is due;
\* the seconds the call took are kept in its history entry
TimedReturn ==
    /\ proc = "running"
    /\ pc = "c_inflight"
    /\ \E answer \in CallAnswers :
          /\ result' = invoke_model(calls[1].model_id, questions[1], answer)
          /\ calls' =
                << [model_id |-> calls[1].model_id,
                    question_id |-> calls[1].question_id,
                    extension |-> calls[1].extension,
                    outcome |-> IF Kind(calls[1].model_id) # "none"
                                   /\ answer.raises # "none"
                                THEN "raised" ELSE "returned",
                    measured |-> answer.duration] >>
          /\ events' =
                (IF Kind(calls[1].model_id) # "none"
                 THEN Append(events, "request") ELSE events)
                \o (IF TimeoutWarning(answer.duration)
                    THEN <<"timeout_warning">> ELSE <<>>)
    /\ inflight' = {}
    /\ pc' = "c_row"
    /\ UNCHANGED << typed, df, metrics, fs, tty, iterations, iteration, proc, appended, questions,
                    results, model_results, m, i, j, more_iterations,
                    csv_file, buffer, exception, presses, deviations >>

NextTimed ==
    \/ TimedReturn
    \/ CallRecord

SpecTimed == InitCall /\ [][NextTimed]_vars

----------------------------------------------------------------------------
(* Reading the results file back: pd.read_csv *)

RECURSIVE ParseCell(_, _, _, _)
\* reads cell from position k on: acc is the value of the digits before the
\* point, frac tells that the point has been passed
ParseCell(cell, k, acc, frac) ==
    IF k > Len(cell) THEN [ok |-> k > 1 /\ cell[Len(cell)] # ".", value |-> acc]
    ELSE IF cell[k] = "." THEN
        IF frac \/ k = 1 THEN [ok |-> FALSE, value |-> 0]
        ELSE ParseCell(cell, k + 1, acc, TRUE)
    ELSE IF DigitValue(cell[k]) < 0 THEN [ok |-> FALSE, value |-> 0]
    ELSE IF frac THEN
        IF cell[k] = "0" THEN ParseCell(cell, k + 1, acc, TRUE)
        ELSE [ok |-> FALSE, value |-> 0]
    ELSE ParseCell(cell, k + 1, 10 * acc + DigitValue(cell[k]), FALSE)

\* the value of a cell written as an int or as a whole-valued float
ParseNumber(cell) == ParseCell(cell, 1, 0, FALSE)

\* the value of a cell of a bool column
ParseBool(cell) ==
    [ok |-> cell \in {BoolStr(TRUE), BoolStr(FALSE)}, value |-> cell = BoolStr(TRUE)]

\* one data row as read back, columns named by the header
ReadRow(cells) ==
    [model_id |-> cells[1][1],
     question_id |-> ParseNumber(cells[2]).value,
     duration |-> ParseNumber(cells[3]).value,
     input_tokens |-> ParseNumber(cells[4]).value,
     output_tokens |-> ParseNumber(cells[5]).value,
     total_tokens |-> ParseNumber(cells[6]).value,
     tokens_per_minute |-> ParseNumber(cells[7]).value,
     success |-> ParseBool(cells[8]).value]

\* the model_id and question_id columns of a row read back
ModelOfRow(cells) == cells[1][1]
QuestionOfRow(cells) == ParseNumber(cells[2]).value

\* a complete row: one cell per header column, every cell of its column's type
WellFormed(cells) ==
    /\ Len(cells) = Len(Header)
    /\ Len(cells[1]) = 1
    /\ \A c \in 2..7 : ParseNumber(cells[c]).ok
    /\ ParseBool(cells[8]).ok

\* the values of an in-memory result row, numbers without their Python type
Values(row) ==
    [model_id |-> row.model_id,
     question_id |-> row.question_id,
     duration |-> row.duration.v,
     input_tokens |-> row.input_tokens,
     output_tokens |-> row.output_tokens,
     total_tokens |-> row.total_tokens,
     tokens_per_minute |-> row.tokens_per_minute.v,
     success |-> row.success]

----------------------------------------------------------------------------
(* generate_graphs: it reads the newest results file, adds the column
   invocations_per_minute, draws its charts and prints the summary table.
   The files it is given here hold up to GraphRows rows of successful calls
   of the first two models, in the order run_benchmark writes them, with
   durations for which every quotient below is a whole number. *)

\* the float of a division by 0.0 in a column of a data frame
Infinity == [py |-> "inf", v |-> 0, frac |-> <<>>]

GraphDurations == {0, 1, 2, 4}
GraphChoices == [model : 1..2, duration : GraphDurations]

\* the rows of a file: models in the order of MODELS
GraphRowsOfLen(n) ==
    {c \in [1..n -> GraphChoices] :
        \A k \in 1..(n - 1) : c[k].model <= c[k + 1].model}

\* the file run_benchmark writes for these calls
GraphFile(c) ==
    << Header >> \o
    [k \in 1..Len(c) |->
        CsvRow(MODELS[c[k].model], 1,
               invoke_model(MODELS[c[k].model], load_questions[1],
                            [raises |-> "none", duration |-> c[k].duration,
                             body |-> Chars(9, "a")]))]

GraphFiles == {GraphFile(c) : c \in UNION {GraphRowsOfLen(n) : n \in 0..GraphRows}}

InitGraphs ==
    /\ fs = {QuestionsTxt, BibleTxt}
    /\ tty = TRUE
    /\ iterations = [k \in 1..Len(MODELS) |-> 1]
    /\ proc = "running"
    /\ pc = "g_find"
    /\ csv_file \in GraphFiles \cup {<<>>}
    /\ questions = <<>>
    /\ results = <<>>
    /\ model_results = <<>>
    /\ m = 0
    /\ i = -1
    /\ j = -1
    /\ more_iterations = 0
    /\ result = <<>>
    /\ buffer = <<>>
    /\ inflight = {}
    /\ calls = <<>>
    /\ events = <<>>
    /\ exception = ""
    /\ appended = 0
    /\ presses = 0
    /\ deviations = 0
    /\ iteration = 0
    /\ typed = <<>>
    /\ df = <<>>
    /\ metrics = <<>>

\* pd.read_csv(latest_csv): one record per data row
ReadCsv(file) == [k \in 1..(Len(file) - 1) |-> ReadRow(file[k + 1])]

\* 60 / duration, element of a float column
InvocationsPerMinute(duration) ==
    IF duration = 0 THEN Infinity ELSE FloatDiv(60, duration)

\* df.groupby("model_id"): the keys, and the rows of a key
ModelsOf(rows) == {rows[k].model_id : k \in 1..Len(rows)}
GroupOf(rows, mid) == {k \in 1..Len(rows) : rows[k].model_id = mid}

RECURSIVE SumOf(_, _, _)
\* the sum of a column of whole numbers over the rows ks
SumOf(rows, ks, column) ==
    IF ks = {} THEN 0
    ELSE SumOf(rows, ks \ {CHOOSE k \in ks : TRUE}, column)
         + rows[CHOOSE k \in ks : TRUE][column]

\* "mean" of a column of whole numbers
MeanOf(rows, ks, column) == FloatDiv(SumOf(rows, ks, column), Cardinality(ks))

\* the rate of an endpoint taken from the mean of its durations
MeanInvocationsPerMinute_OfMeanDuration(rows, ks) ==
    IF SumOf(rows, ks, "duration") = 0 THEN Infinity
    ELSE FloatDiv(60 * Cardinality(ks), SumOf(rows, ks, "duration"))

\* "mean" of the column invocations_per_minute (of whole-valued floats)
MeanInvocationsPerMinute(rows, ks) ==
    IF \E k \in ks : rows[k].invocations_per_minute = Infinity THEN Infinity
    ELSE FloatDiv(SumOf([k \in 1..Len(rows) |->
                            [rate |-> rows[k].invocations_per_minute.v]],
                        ks, "rate"),
                  Cardinality(ks))

\* x.mean() * 100 of the bool column success
SuccessRate(rows, ks) ==
    FloatMul(FloatDiv(Cardinality({k \in ks : rows[k].success}),
                      Cardinality(ks)), 100)

\* one row of df.groupby("model_id").agg({...})
MetricsRow(rows, ks) ==
    [duration |-> MeanOf(rows, ks, "duration"),
     input_tokens |-> MeanOf(rows, ks, "input_tokens"),
     output_tokens |-> MeanOf(rows, ks, "output_tokens"),
     total_tokens |-> MeanOf(rows, ks, "total_tokens"),
     tokens_per_minute |-> MeanOf(rows, ks, "tokens_per_minute"),
     invocations_per_minute |-> MeanInvocationsPerMinute(rows, ks),
     success |-> SuccessRate(rows, ks)]

\* csv_files = glob.glob(...); if not csv_files: return
FindCsv ==
    /\ proc = "running"
    /\ pc = "g_find"
    /\ IF csv_file = <<>>
       THEN proc' = "done" /\ UNCHANGED pc
       ELSE pc' = "g_read" /\ UNCHANGED proc
    /\ UNCHANGED << typed, df, metrics, fs, tty, iterations, iteration, appended,
                    questions, results, model_results, m, i, j,
                    more_iterations, result, csv_file, buffer, inflight,
                    calls, events, exception, presses, deviations >>

\* df = pd.read_csv(latest_csv)
LoadCsv ==
    /\ proc = "running"
    /\ pc = "g_read"
    /\ df' = ReadCsv(csv_file)
    /\ pc' = "g_rate"
    /\ UNCHANGED << typed, metrics, fs, tty, iterations, iteration, proc, appended,
                    questions, results, model_results, m, i, j,
                    more_iterations, result, csv_file, buffer, inflight,
                    calls, events, exception, presses, deviations >>

\* df["invocations_per_minute"] = 60 / df["duration"]
AddInvocationsPerMinute ==
    /\ proc = "running"
    /\ pc = "g_rate"
    /\ df' = [k \in 1..Len(df) |->
                df[k] @@ ("invocations_per_minute" :>
                              InvocationsPerMinute(df[k].duration))]
    /\ pc' = "g_charts"
    /\ UNCHANGED << typed, metrics, fs, tty, iterations, iteration, proc, appended,
                    questions, results, model_results, m, i, j,
                    more_iterations, result, csv_file, buffer, inflight,
                    calls, events, exception, presses, deviations >>

\* the charts: plt.subplots(1, n) gives one Axes, not a list, for one model
\* (zip(axes, ...) raises TypeError) and raises for none; a chart of no data
\* raises as well
DrawCharts ==
    /\ proc = "running"
    /\ pc = "g_charts"
    /\ IF Cardinality(ModelsOf(df)) >= 2
       THEN /\ pc' = "g_table"
            /\ UNCHANGED << proc, exception >>
       ELSE /\ proc' = "failed"
            /\ exception' \in
                  IF ModelsOf(df) = {} THEN {"TypeError", "ValueError"}
                  ELSE {"TypeError"}
            /\ UNCHANGED pc
    /\ UNCHANGED << typed, df, metrics, fs, tty, iterations, iteration, appended,
                    questions, results, model_results, m, i, j,
                    more_iterations, result, csv_file, buffer, inflight,
                    calls, events, presses, deviations >>

\* metrics = df.groupby("model_id").agg({...}); it is saved and printed
Summarise ==
    /\ proc = "running"
    /\ pc = "g_table"
    /\ metrics' = [mid \in ModelsOf(df) |-> MetricsRow(df, GroupOf(df, mid))]
    /\ proc' = "done"
    /\ UNCHANGED << typed, df, fs, tty, iterations, iteration, pc, appended,
                    questions, results, model_results, m, i, j,
                    more_iterations, result, csv_file, buffer, inflight,
                    calls, events, exception, presses, deviations >>

NextGraphs ==
    \/ FindCsv
    \/ LoadCsv
    \/ AddInvocationsPerMinute
    \/ DrawCharts
    \/ Summarise

SpecGraphs == InitGraphs /\ [][NextGraphs]_vars

----------------------------------------------------------------------------
(* Quantities the properties speak of *)

\* the data rows of the results file: all rows but the header
NumDataRows == IF csv_file = <<>> THEN 0 ELSE Len(csv_file) - 1
DataRow(k) == csv_file[k + 1]

\* the in-memory record list: results, then the current model's model_results
\* (at "models" the current model's rows are already part of results)
NumInMemory ==
    IF pc = "models" THEN Len(results) ELSE Len(results) + Len(model_results)
InMemory(k) ==
    IF k <= Len(results) THEN results[k] ELSE model_results[k - Len(results)]

\* calls of invoke_model that have come back
Completed == Cardinality({k \in 1..Len(calls) : calls[k].outcome # "inflight"})

ExtensionCalls == {k \in 1..Len(calls) : calls[k].extension}
RegularCalls == {k \in 1..Len(calls) : ~calls[k].extension}

Stopped == proc \in {"interrupted", "killed"}

\* row k of the file is the row of call k
RowOfCall(k) ==
    /\ DataRow(k)[1] = << calls[k].model_id >>
    /\ DataRow(k)[2] = IntStr(calls[k].question_id)

\* position of a model identifier in MODELS
ModelIndex(mid) == CHOOSE k \in 1..Len(MODELS) : MODELS[k] = mid

IsPrefix(s, t) == Len(s) <= Len(t) /\ \A k \in 1..Len(s) : s[k] = t[k]

----------------------------------------------------------------------------
(* C1: every call of invoke_model, regular or extension, produces exactly
   one data row, and the row is on disk before the next call begins: while a
   call is in progress the file holds as many data rows as there were calls
   before it, when the next call is about to begin or the run is done it
   holds one row per call, and row k is the row of call k. *)
C1_OneRowPerCallBeforeNext ==
    /\ pc \in {"inflight", "x_inflight"} => NumDataRows = Len(calls) - 1
    /\ proc = "running" /\ pc \in {"invoke", "x_invoke"} => NumDataRows = Len(calls)
    /\ proc = "done" => NumDataRows = Len(calls)
    /\ NumDataRows <= Len(calls)
    /\ \A k \in 1..NumDataRows : RowOfCall(k)

\* an extension call is in progress, after a regular call whose row is on disk
C1_Witness ==
    /\ proc = "running"
    /\ pc = "x_inflight"
    /\ j = 1
    /\ NumDataRows = Len(calls) - 1
    /\ NumDataRows >= 2

----------------------------------------------------------------------------
(* C2 as stated: when the run is interrupted or killed after N calls have
   completed, the file holds exactly N data rows. *)
C2_ExactlyCompletedRows == Stopped => NumDataRows = Completed

\* the rows a stopped run leaves: N, or N - 1 when it is stopped after the
\* N-th call returned and before its row reached the file
C2_StoppedRows ==
    Stopped =>
        /\ NumDataRows \in {Completed - 1, Completed}
        /\ NumDataRows = Completed - 1 <=>
              \/ pc \in {"row", "x_row"}
              \/ proc = "killed" /\ pc \in {"close", "x_close"}

\* the newest row of the file is complete and is the row of the call of its
\* position
C2_NewestRowWhole ==
    NumDataRows > 0 =>
        /\ WellFormed(DataRow(NumDataRows))
        /\ RowOfCall(NumDataRows)

\* a step changes the file only by appending one row to it
C2_AppendOnly ==
    csv_file # <<>> =>
        /\ IsPrefix(csv_file, csv_file')
        /\ Len(csv_file') <= Len(csv_file) + 1

(* C2, amended: a run interrupted or killed after N calls have completed
   leaves N data rows, or N - 1 when it is stopped after the N-th call
   returned and before its row reached the file; no row is partial or
   duplicated (each row is complete and is the row of the call of its
   position when it is appended), and no step changes a row that was
   appended before. *)
C2_StoppedRowsIntact ==
    /\ [](C2_StoppedRows /\ C2_NewestRowWhole)
    /\ [][C2_AppendOnly]_vars

\* killed inside the with block of the third call: its row is lost, two remain
C2_Witness ==
    /\ proc = "killed"
    /\ pc = "close"
    /\ Completed = 3
    /\ NumDataRows = 2

----------------------------------------------------------------------------
(* C3: a call of invoke_model in which an exception is raised still yields
   exactly one record, in memory and in the file, with success false,
   output_tokens 0 and a duration; its response text is empty. *)
C3_FailedCallRecord ==
    /\ NumInMemory =
          IF pc \in {"inflight", "x_inflight", "row", "x_row"}
          THEN Len(calls) - 1 ELSE Len(calls)
    /\ \A k \in 1..NumInMemory :
          calls[k].outcome = "raised" =>
              /\ InMemory(k).model_id = calls[k].model_id
              /\ InMemory(k).question_id = calls[k].question_id
              /\ InMemory(k).success = FALSE
              /\ InMemory(k).output_tokens = 0
              /\ InMemory(k).duration.py = "float"
              /\ InMemory(k).duration.v >= 0
    /\ \A k \in 1..NumDataRows :
          calls[k].outcome = "raised" =>
              /\ ReadRow(DataRow(k)).success = FALSE
              /\ ReadRow(DataRow(k)).output_tokens = 0
              /\ ParseNumber(DataRow(k)[3]).ok
    /\ pc \in {"row", "x_row"} /\ calls[Len(calls)].outcome = "raised" =>
          /\ result.response = <<>>
          /\ result.error # NoError

\* the row of a failed call is in memory and in the file
C3_Witness ==
    \E k \in 1..NumDataRows :
        /\ calls[k].outcome = "raised"
        /\ ReadRow(DataRow(k)).success = FALSE
        /\ k <= NumInMemory

----------------------------------------------------------------------------
(* C4 as stated: no failure ends the run early except a missing input file
   (or an interrupt): whenever an exception has left run_benchmark, it is
   the FileNotFoundError of load_questions. *)
C4_OnlyLoadFailureEndsRun == proc = "failed" => exception = "FileNotFoundError"

----------------------------------------------------------------------------
(* C5: when run_benchmark has returned, the number of records, in the file
   and in results, is the number of models times the number of questions
   (one regular call per model and question) plus the number of extension
   calls. *)
C5_RecordCount ==
    proc = "done" =>
        /\ Cardinality(RegularCalls) = Len(MODELS) * Len(questions)
        /\ NumDataRows = Len(MODELS) * Len(questions) + Cardinality(ExtensionCalls)
        /\ Len(results) = NumDataRows

\* a run that returned after extension calls
C5_Witness ==
    /\ proc = "done"
    /\ Cardinality(ExtensionCalls) = 2
    /\ Len(questions) = NumQuestions

----------------------------------------------------------------------------
(* C6: at every point where the process may end, and after it has ended, the
   file holds exactly the rows appended so far, and reading them back gives,
   in order and field by field, the first entries of the in-memory record
   list: the newest row read back is the memory entry of its position, and
   no step changes a row of the file or an entry of the list. *)
C6_NewestRowMatches ==
    /\ NumDataRows = appended
    /\ NumDataRows <= NumInMemory
    /\ NumDataRows > 0 =>
          /\ WellFormed(DataRow(NumDataRows))
          /\ ReadRow(DataRow(NumDataRows)) = Values(InMemory(NumDataRows))

C6_Kept ==
    /\ csv_file # <<>> => IsPrefix(csv_file, csv_file')
    /\ NumInMemory <= NumInMemory'
    /\ \A k \in 1..NumInMemory : InMemory(k)' = InMemory(k)

C6_FileMatchesMemory == [](C6_NewestRowMatches) /\ [][C6_Kept]_vars

\* killed with four records in memory, the first three of them in the file
C6_Witness ==
    /\ proc = "killed"
    /\ appended = 3
    /\ NumInMemory = 4
    /\ NumDataRows = 3
    /\ ReadRow(DataRow(3)) = Values(InMemory(3))

----------------------------------------------------------------------------
(* C7: after 'p' is detected behind the regular call for (m, q) and a count
   k is entered, exactly k extension calls follow, all for (m, q), each with
   its own row and cooldown and no other call in between; then the regular
   loop goes on with the pair that follows (m, q). *)

\* the extension calls at the end of the call history
TrailingExtras ==
    Len(calls) - (CHOOSE r \in RegularCalls : \A l \in RegularCalls : l <= r)

\* the n-th pair of the nested loop over MODELS and questions
PairModel(n) == MODELS[((n - 1) \div Len(questions)) + 1]
PairQuestion(n) == ((n - 1) % Len(questions)) + 1

C7_Calls ==
    /\ \A k \in ExtensionCalls :
          /\ k > 1
          /\ calls[k].model_id = calls[k - 1].model_id
          /\ calls[k].question_id = calls[k - 1].question_id
    /\ \A k \in RegularCalls :
          LET n == Cardinality({l \in RegularCalls : l <= k})
          IN  /\ calls[k].model_id = PairModel(n)
              /\ calls[k].question_id = PairQuestion(n)
    /\ pc = "x_invoke" => TrailingExtras = j
    /\ pc \in {"x_inflight", "x_row", "x_close", "x_sleep"} => TrailingExtras = j + 1
    /\ proc = "running" /\ pc = "more" =>
          /\ TrailingExtras = j + 1
          /\ NumDataRows = Len(calls)
          /\ events[Len(events)] \in {"sleep", "poll"}
          /\ j >= 0 => events = <<"invoke", "row", "sleep">>

C7_Resume ==
    /\ pc = "prompt" /\ pc' = "more" => TrailingExtras = 0 /\ calls' = calls
    /\ pc = "more" /\ pc' = "questions" =>
          /\ TrailingExtras = IF more_iterations > 0 THEN more_iterations ELSE 0
          /\ m' = m
          /\ i' = i

C7_ExtensionRuns == [](C7_Calls) /\ [][C7_Resume]_vars

\* two extension calls for one pair, and the regular call of the next pair
C7_Witness ==
    \E k \in 2..(Len(calls) - 2) :
        /\ ~calls[k - 1].extension
        /\ calls[k].extension
        /\ calls[k + 1].extension
        /\ ~calls[k + 2].extension
        /\ calls[k + 2].question_id # calls[k].question_id

----------------------------------------------------------------------------
(* C8: an endpoint configured with iteration count 0 is never called and no
   record is emitted for it, in memory or in the file. *)
C8_CountZeroSkipped ==
    \A k \in 1..Len(MODELS) :
        iterations[k] = 0 =>
            /\ \A c \in 1..Len(calls) : calls[c].model_id # MODELS[k]
            /\ \A r \in 1..NumDataRows : ModelOfRow(DataRow(r)) # MODELS[k]
            /\ \A r \in 1..NumInMemory : InMemory(r).model_id # MODELS[k]

\* a finished run that skipped the second endpoint and called the others
C8_Witness ==
    /\ proc = "done"
    /\ iterations[1] > 0 /\ iterations[2] = 0 /\ iterations[3] > 0
    /\ \E a, b \in 1..NumDataRows :
          /\ ModelOfRow(DataRow(a)) = MODELS[1]
          /\ ModelOfRow(DataRow(b)) = MODELS[3]

----------------------------------------------------------------------------
(* C9: the rows are in the order of the calls; the rows of one model are
   contiguous and the models appear in the order of MODELS; within a model
   the question_id values are 1-based and never decrease (from each row to
   the next the model stays or moves on in MODELS, and while it stays the
   question_id does not decrease). *)
C9_RowOrder ==
    /\ \A k \in 1..NumDataRows :
          /\ RowOfCall(k)
          /\ QuestionOfRow(DataRow(k)) \in 1..Len(questions)
    /\ \A a \in 1..(NumDataRows - 1) :
          /\ ModelIndex(ModelOfRow(DataRow(a))) <= ModelIndex(ModelOfRow(DataRow(a + 1)))
          /\ ModelOfRow(DataRow(a)) = ModelOfRow(DataRow(a + 1)) =>
                QuestionOfRow(DataRow(a)) <= QuestionOfRow(DataRow(a + 1))

\* rows of both questions of one model, followed by a row of the next model
C9_Witness ==
    \E a, b, c \in 1..NumDataRows :
        /\ a < b /\ b < c
        /\ DataRow(a)[1] = DataRow(b)[1]
        /\ DataRow(a)[2] # DataRow(b)[2]
        /\ DataRow(b)[1] # DataRow(c)[1]

----------------------------------------------------------------------------
(* C10: at most one call is in flight at any time, it is the last call
   begun, and is_p_pressed runs only between calls: never while a call is in
   flight. *)
C10_Sequential ==
    /\ Cardinality(inflight) <= 1
    /\ inflight # {} => inflight = {Len(calls)} /\ pc \in {"inflight", "x_inflight"}
    /\ pc \in {"poll", "prompt"} => inflight = {}
    /\ \A k \in 1..Len(events) :
          events[k] = "poll" => k = Len(events) /\ k > 1 /\ inflight = {}

\* is_p_pressed has just run, after a call that came back
C10_Witness ==
    /\ pc = "prompt"
    /\ events = <<"invoke", "row", "sleep", "poll">>
    /\ calls[Len(calls)].outcome = "returned"
    /\ inflight = {}

----------------------------------------------------------------------------
(* C11: when questions.txt or bible.txt is missing, load_questions raises
   and run_benchmark goes no further: the program is still at its first
   statement, no call of invoke_model has begun, nothing was written (not
   even the header) and no record is held in memory; the run never completes,
   and when it has failed it is with the FileNotFoundError of the loader. *)
C11_MissingFileAborts ==
    ~({QuestionsTxt, BibleTxt} \subseteq fs) =>
        /\ pc = "start"
        /\ calls = <<>>
        /\ inflight = {}
        /\ csv_file = <<>>
        /\ buffer = <<>>
        /\ results = <<>> /\ model_results = <<>>
        /\ proc # "done"
        /\ proc = "failed" => exception = "FileNotFoundError"

\* the run failed in load_questions with the reference text missing
C11_Witness ==
    /\ fs = {QuestionsTxt}
    /\ proc = "failed"
    /\ exception = "FileNotFoundError"
    /\ calls = <<>>
    /\ csv_file = <<>>

----------------------------------------------------------------------------
(* C12: the header is the first row of the file, it is there before the
   first call begins, it is written once and never again, and it names the
   columns model_id, question_id, duration, input_tokens, output_tokens,
   total_tokens, tokens_per_minute, success; every data row, of a regular or
   an extension call, has one cell per header column, and the cell under a
   column name is the text of the field of that name of the record of the
   row (checked for each row when it is appended; rows never change). *)

\* the columns, in order
C12_Columns ==
    << "model_id", "question_id", "duration", "input_tokens", "output_tokens",
       "total_tokens", "tokens_per_minute", "success" >>

\* the text of the field of a record that a column name selects
C12_Cell(row, name) ==
    CASE name = "model_id" -> << row[name] >>
      [] name \in {"question_id", "input_tokens", "output_tokens",
                   "total_tokens"} -> IntStr(row[name])
      [] name \in {"duration", "tokens_per_minute"} -> NumStr(row[name])
      [] name = "success" -> BoolStr(row[name])

C12_HeaderAndNewestRow ==
    /\ calls # <<>> => csv_file # <<>>
    /\ csv_file # <<>> =>
          /\ Len(csv_file[1]) = Len(C12_Columns)
          /\ \A c \in 1..Len(C12_Columns) : csv_file[1][c] = << C12_Columns[c] >>
    /\ NumDataRows > 0 =>
          /\ Len(DataRow(NumDataRows)) = Len(csv_file[1])
          /\ DataRow(NumDataRows) # csv_file[1]
          /\ NumDataRows <= NumInMemory
          /\ \A c \in 1..Len(csv_file[1]) :
                DataRow(NumDataRows)[c] =
                    C12_Cell(InMemory(NumDataRows), csv_file[1][c][1])

\* the header is written into the empty file before any call, and a step
\* leaves the rows of the file as they are
C12_HeaderOnce ==
    /\ csv_file = <<>> /\ csv_file' # <<>> => csv_file' = << Header >> /\ calls = <<>>
    /\ csv_file # <<>> => IsPrefix(csv_file, csv_file')

C12_StableColumns == [](C12_HeaderAndNewestRow) /\ [][C12_HeaderOnce]_vars

\* the file holds the header, the row of a regular call and the row of an
\* extension call
C12_Witness ==
    /\ NumDataRows >= 2
    /\ csv_file[1] = Header
    /\ ~calls[1].extension
    /\ calls[2].extension

----------------------------------------------------------------------------
(* C13 as stated: the tokens_per_minute of a record is total_tokens /
   duration x 60 (the double nearest to that number) when duration > 0 and 0
   when duration <= 0, and it is 1000 for duration 30 and total_tokens 500. *)
C13_ExactQuotient ==
    \A k \in 1..Len(model_results) :
        LET row == model_results[k]
        IN  /\ row.duration.v <= 0 => row.tokens_per_minute.v = 0
            /\ row.duration.v > 0 =>
                  row.tokens_per_minute =
                      FloatDiv(row.total_tokens * 60, row.duration.v)
            /\ row.duration.v = 30 /\ row.total_tokens = 500 =>
                  row.tokens_per_minute = PyFloat(1000)

\* x * d - t for a float x and ints d and t, as a whole part and the bits of
\* a fraction to add to it
FloatExcess(x, d, t) ==
    [whole |-> x.v * d + MulBits(x.frac, Len(x.frac), d, 0, <<>>).carry - t,
     bits |-> MulBits(x.frac, Len(x.frac), d, 0, <<>>).bits]

\* |x * d - t| < 2^(BitLen(t) - 52), which is at most t / 2^51: the excess
\* is a fraction that begins with zeros, or -1 and a fraction that begins
\* with ones
FloatNear(x, d, t) ==
    LET excess == FloatExcess(x, d, t)
        zeros == 52 - BitLen(t)
    IN  \/ /\ excess.whole = 0
           /\ \A b \in 1..Min(zeros, Len(excess.bits)) : excess.bits[b] = 0
        \/ /\ excess.whole = -1
           /\ Len(excess.bits) >= zeros
           /\ \A b \in 1..zeros : excess.bits[b] = 1

(* C13, amended: tokens_per_minute is the int 0 when duration <= 0 (nothing
   is divided); when duration > 0 it is a double that differs from
   total_tokens x 60 / duration by less than one part in 2^51, and it is
   that number exactly when duration is 1 or 2; for duration 30 and
   total_tokens 500 it is 1000 + 2^-43 (1000.0000000000001), not 1000. *)
C13_TokensPerMinute ==
    \A k \in 1..Len(model_results) :
        LET row == model_results[k]
            tpm == row.tokens_per_minute
        IN  /\ row.total_tokens = row.input_tokens + row.output_tokens
            /\ row.duration.v <= 0 => tpm = PyInt(0)
            /\ row.duration.v > 0 =>
                  /\ tpm.py = "float"
                  /\ BitLen(tpm.v) + Len(tpm.frac) <= DOUBLE_BITS
                  /\ FloatNear(tpm, row.duration.v, row.total_tokens * 60)
            /\ row.duration.v \in {1, 2} =>
                  /\ tpm.frac = <<>>
                  /\ tpm.v * row.duration.v = row.total_tokens * 60
            /\ row.duration.v = 30 /\ row.total_tokens = 500 =>
                  tpm = Float(1000, Append(Chars(42, 0), 1))

\* a record of 500 tokens in 30 seconds, another call took no time
C13_Witness ==
    /\ model_results # <<>>
    /\ model_results[1].duration.v = 30
    /\ model_results[1].total_tokens = 500
    /\ model_results[1].tokens_per_minute.frac # <<>>

----------------------------------------------------------------------------
(* C14: count_tokens(s) is the floor of len(s) / 4, the largest n with
   4 n <= len(s), and 0 for the empty string: it is so for the prompt, whose
   estimate is the input_tokens of the result and of the record, and for a
   response text that is not empty, whose estimate is the output_tokens. *)
C14_TokenEstimate ==
    /\ result # <<>> =>
          /\ 4 * result.input_tokens <= Len(questions[1])
          /\ Len(questions[1]) < 4 * (result.input_tokens + 1)
          /\ questions[1] = <<>> => result.input_tokens = 0
          /\ 4 * result.output_tokens <= Len(result.response)
          /\ Len(result.response) < 4 * (result.output_tokens + 1)
    /\ \A k \in 1..Len(model_results) :
          /\ model_results[k].input_tokens = result.input_tokens
          /\ 4 * model_results[k].input_tokens <= Len(questions[1])
          /\ Len(questions[1]) < 4 * (model_results[k].input_tokens + 1)

\* the record of a call with a prompt of seven characters: one token
C14_Witness ==
    /\ model_results # <<>>
    /\ Len(questions[1]) = 7
    /\ model_results[1].input_tokens = 1
    /\ model_results[1].output_tokens = 2

----------------------------------------------------------------------------
(* C15: a call is flagged as a timeout warning exactly when its measured
   duration is 30 seconds or more, and the duration of its result and of its
   record is the measured one, also when it is above 30. *)
C15_TimeoutFlagged ==
    pc = "c_row" =>
        /\ (\E k \in 1..Len(events) : events[k] = "timeout_warning")
              <=> calls[1].measured >= 30
        /\ result.duration = PyFloat(calls[1].measured)
        /\ \A k \in 1..Len(model_results) :
              model_results[k].duration = PyFloat(calls[1].measured)

\* the record of a flagged call of 31 seconds
C15_Witness ==
    /\ model_results # <<>>
    /\ model_results[1].duration.v = 31
    /\ events[Len(events) - 1] = "timeout_warning"

----------------------------------------------------------------------------
(* C16 as stated: in the summary table the invocations per minute of an
   endpoint are 60 divided by the mean duration of its rows, that is 60 n
   divided by the sum of the n durations. *)
C16_SixtyOverMeanDuration ==
    proc = "done" /\ pc = "g_table" =>
        \A mid \in DOMAIN metrics :
            LET ks == GroupOf(df, mid)
            IN  SumOf(df, ks, "duration") > 0 =>
                    metrics[mid].invocations_per_minute =
                        FloatDiv(60 * Cardinality(ks), SumOf(df, ks, "duration"))

\* four times the sum of 60 / duration over the rows ks of positive duration
C16_FourTimesRates(ks) ==
    SumOf([k \in 1..Len(df) |->
              [x |-> IF df[k].duration > 0 THEN 240 \div df[k].duration ELSE 0]],
          ks, "x")

(* C16, amended: in the summary table the invocations per minute of an
   endpoint are the mean over its rows of 60 / duration: n times the value
   is the sum of the 60 / duration of its n rows (infinite when a duration
   is 0); that is 60 divided by the mean duration when all the durations of
   the endpoint are equal. *)
C16_MeanOfRates ==
    proc = "done" /\ pc = "g_table" =>
        /\ DOMAIN metrics = ModelsOf(df)
        /\ \A mid \in DOMAIN metrics :
              LET ks == GroupOf(df, mid)
                  rate == metrics[mid].invocations_per_minute
              IN  /\ (\E k \in ks : df[k].duration = 0) => rate = Infinity
                  /\ (\A k \in ks : df[k].duration > 0) =>
                        /\ rate.py = "float"
                        /\ FloatNear(rate, 4 * Cardinality(ks),
                                     C16_FourTimesRates(ks))
                        /\ Cardinality(ks) \in {1, 2, 4} =>
                              /\ FloatExcess(rate, 4 * Cardinality(ks),
                                             C16_FourTimesRates(ks)).whole = 0
                              /\ TrimZeros(FloatExcess(rate, 4 * Cardinality(ks),
                                       C16_FourTimesRates(ks)).bits) = <<>>
                  /\ (\A k, l \in ks :
                         df[k].duration = df[l].duration /\ df[k].duration > 0)
                        => rate = FloatDiv(60 * Cardinality(ks),
                                           SumOf(df, ks, "duration"))

\* the table of a file in which the first model has rows of 1 and 2 seconds:
\* 45 invocations per minute, where 60 / 1.5 is 40
C16_Witness ==
    /\ proc = "done"
    /\ pc = "g_table"
    /\ Len(df) = 3
    /\ df[1].duration = 1 /\ df[2].duration = 2
    /\ df[1].model_id = MODELS[1] /\ df[2].model_id = MODELS[1]
    /\ metrics[MODELS[1]].invocations_per_minute = PyFloat(45)

----------------------------------------------------------------------------
\* the steps of one call in the order the loop takes them
C17_Step == <<"invoke", "row", "sleep", "poll">>

(* C17: between any two consecutive endpoint calls, regular or extension,
   the cooldown sleep is executed, and within each step the order is
   invoke, then the record, then the cooldown, then, for regular calls
   only, the keypress poll. *)
C17_CooldownBetweenCalls ==
    /\ \E n \in 0..4 : events = SubSeq(C17_Step, 1, n)
    /\ (proc = "running" /\ pc \in {"invoke", "x_invoke"} /\ calls # <<>>)
          => Len(events) >= 3
    /\ Len(events) = 4 => ~calls[Len(calls)].extension
    /\ (proc = "running" /\ pc \in {"questions", "prompt"} /\ calls # <<>>
          /\ ~calls[Len(calls)].extension) => Len(events) = 4
    /\ (proc = "running" /\ pc = "more" /\ calls[Len(calls)].extension)
          => Len(events) = 3

\* a regular call about to be made after an extension call and its cooldown
C17_Witness ==
    /\ proc = "running"
    /\ pc = "invoke"
    /\ Len(calls) >= 2
    /\ calls[Len(calls)].extension
    /\ ~calls[1].extension
    /\ events = <<"invoke", "row", "sleep">>

----------------------------------------------------------------------------
\* the line is not empty and int() rejects it
C18_Malformed(line) == line # <<>> /\ ~ParseInt(line).ok

\* the prompt has just been answered
C18_Answered == pc = "prompt" /\ pc' # "prompt"

(* C18 as stated: a malformed entry at the prompt is not fatal and is
   recovered by substituting the default count, so that one extension call
   is made for it. *)
C18_DefaultSubstituted ==
    [][C18_Answered /\ C18_Malformed(typed'[1]) =>
          /\ proc' = "running"
          /\ more_iterations' = 1
          /\ pc' = "more"]_vars

(* C18, amended: a malformed entry at the prompt is never fatal: the
   ValueError is caught, no count is substituted and no extension call is
   made for it, and the regular loop continues with the next position; the
   default count 1 stands in for an empty entry only. *)
C18_MalformedEntrySkipped ==
    [][C18_Answered =>
          /\ proc' = "running"
          /\ exception' = ""
          /\ C18_Malformed(typed'[1]) =>
                /\ pc' = "questions"
                /\ UNCHANGED << more_iterations, j, calls, model_results,
                                csv_file, m, i >>
          /\ typed'[1] = <<>> => more_iterations' = 1 /\ pc' = "more"]_vars

\* after the entry "x" the second question is about to be asked, and no
\* extension call was made
C18_Witness ==
    /\ proc = "running"
    /\ pc = "invoke"
    /\ typed = << <<"x">> >>
    /\ i = 1
    /\ Len(calls) = 1
    /\ ~calls[1].extension

----------------------------------------------------------------------------
(* C19: the keypress poll happens once after each regular call and never
   after an extension call, so that a request for extensions is never made
   inside another; and when every call returns and every count entered is
   finite, a run that has loaded its questions and ended has made exactly
   one regular call for each model and question. *)
C19_PollOnceAndAllCallsMade ==
    /\ \A k \in 1..Len(events) :
          events[k] = "poll" => k = 4 /\ ~calls[Len(calls)].extension
    /\ pc = "prompt" => ~calls[Len(calls)].extension
    /\ (proc \in {"done", "failed"} /\ questions # <<>>) =>
          Cardinality(RegularCalls) = Len(MODELS) * Len(questions)

----------------------------------------------------------------------------
\* the substrings invoke_model looks for in a model identifier
C20_Known ==
    { <<"c", "l", "a", "u", "d", "e">>, <<"n", "o", "v", "a">>,
      <<"t", "i", "t", "a", "n", "-", "e", "m", "b", "e", "d">>,
      <<"r", "e", "r", "a", "n", "k">> }

(* C20: for a model identifier that contains none of "claude", "nova",
   "titan-embed", "rerank", invoke_model sends no request and raises no
   error, and the record has success true and output_tokens 0; in every
   record success is true exactly when no exception was caught, whether or
   not a request was answered. *)
C20_SuccessMeansNoException ==
    (pc = "c_row" /\ model_results # <<>>) =>
        /\ (\A sub \in C20_Known : ~Contains(Spelling(calls[1].model_id), sub)) =>
              /\ \A k \in 1..Len(events) : events[k] # "request"
              /\ calls[1].outcome = "returned"
              /\ model_results[1].success
              /\ model_results[1].output_tokens = 0
        /\ model_results[1].success <=> calls[1].outcome # "raised"

\* the record of a text model no branch serves: success, and no request sent
C20_Witness ==
    /\ pc = "c_row"
    /\ model_results # <<>>
    /\ calls[1].model_id = "amazon.titan-text-express-v1"
    /\ events = <<"invoke", "row">>
    /\ model_results[1].success
    /\ model_results[1].output_tokens = 0

====
